---- MODULE Spec2Model ----
(***************************************************************************)
(* Catalogue browser of AllBrainsWelcome: the fetched-dataset page script  *)
(* (src/unnamed/part_000, and its near-copy src/Logic.js lines 190-465)    *)
(* and the inline-dataset page script (src/Logic.js lines 1-188).          *)
(*                                                                         *)
(* Tag values are strings whose UTF-16 code units CodeUnits gives, and     *)
(* data-id attributes are sequences of code units, so that the default     *)
(* order of Array.prototype.sort and the == of openModal are computed.     *)
(* An optional JSON field is <<>> when absent and <<v>> when present.      *)
(***************************************************************************)
EXTENDS Integers, Sequences, FiniteSets, TLC

VARIABLES
  variant,          \* "fetch": part_000 / Logic.js 190-465; "inline": Logic.js 1-188
  pc,               \* where fetchDatabase stands: awaitFetch, awaitJson, loaded, failed
  database,         \* let database = []  (const database = [...] in the inline script)
  filters,          \* per group: the values of the checkboxes, in DOM order
  checked,          \* per group: the values of the checkboxes that are checked
  items,            \* positions (in database) of the records last handed to populateResults
  resultsGrid,      \* the cards in #results-grid, in DOM order
  gridHidden,       \* resultsGrid.classList contains 'hidden'
  noResultsHidden,  \* noResultsMessage.classList contains 'hidden'
  noResultsH3,      \* text of the h3 of #no-results
  noResultsP,       \* text of the p of #no-results
  resultsCount,     \* resultsCount.textContent
  loadingHidden,    \* loadingIndicator.classList contains 'hidden'
  modalTitle,       \* modalTitle.textContent
  modalContent,     \* modalContent.innerHTML, as the list of its sections
  containerHidden,  \* infoModalContainer.classList contains 'hidden'
  panelHidden,      \* infoModal.classList contains 'hidden'
  bodyOverflow,     \* document.body.style.overflow
  timers,           \* pending setTimeout callbacks, oldest first
  openSinceClose,   \* openModal has shown a record and closeModal has not run since
  last,             \* the handler that ran last
  uncaught          \* the handler that ran last ended with an uncaught exception

vars == << variant, pc, database, filters, checked, items, resultsGrid, gridHidden,
           noResultsHidden, noResultsH3, noResultsP, resultsCount, loadingHidden,
           modalTitle, modalContent, containerHidden, panelHidden, bodyOverflow,
           timers, openSinceClose, last, uncaught >>

filterVars == << filters, checked >>
resultVars == << items, resultsGrid, gridHidden, noResultsHidden, resultsCount >>
modalVars == << modalTitle, modalContent, containerHidden, panelHidden, bodyOverflow,
               openSinceClose >>

----------------------------------------------------------------------------
(* Bounds *)

\* longest fetched dataset
MaxRecords == 2

\* most setTimeout callbacks pending at once
MaxTimers == 2

\* most checkboxes checked at once
MaxChecked == 2

----------------------------------------------------------------------------
(* Strings *)

\* a field the record does not have
Absent == <<>>

\* a field the record has, with value v
Present(v) == <<v>>

\* a JSON number and a JSON string (its code units) as the Index of a record
Num(n) == [num |-> n]

Str(units) == [str |-> units]

\* typeof x === 'number'
IsNum(x) == "num" \in DOMAIN x

\* String(undefined)
UndefinedStr == <<117, 110, 100, 101, 102, 105, 110, 101, 100>>

\* the JSON number 7 where a tag, a string, is expected
NumberTag == "#7"

\* typeof val === 'string'
IsString(val) == val # NumberTag

\* the UTF-16 code units of String(s) for the tag values of the model
CodeUnits(s) ==
  CASE s = "A" -> <<65>>
    [] s = NumberTag -> <<55>>
    [] s = "AB" -> <<65, 66>>
    [] s = "B" -> <<66>>
    [] s = "Web Development" -> <<87, 101, 98, 32, 68, 101, 118, 101, 108, 111, 112, 109, 101, 110, 116>>
    [] s = "Completed" -> <<67, 111, 109, 112, 108, 101, 116, 101, 100>>
    [] s = "React" -> <<82, 101, 97, 99, 116>>
    [] s = "Node.js" -> <<78, 111, 100, 101, 46, 106, 115>>
    [] s = "PostgreSQL" -> <<80, 111, 115, 116, 103, 114, 101, 83, 81, 76>>
    [] s = "Mobile App" -> <<77, 111, 98, 105, 108, 101, 32, 65, 112, 112>>
    [] s = "In Progress" -> <<73, 110, 32, 80, 114, 111, 103, 114, 101, 115, 115>>
    [] s = "Swift" -> <<83, 119, 105, 102, 116>>
    [] s = "Kotlin" -> <<75, 111, 116, 108, 105, 110>>
    [] s = "Firebase" -> <<70, 105, 114, 101, 98, 97, 115, 101>>
    [] s = "Data Science" -> <<68, 97, 116, 97, 32, 83, 99, 105, 101, 110, 99, 101>>
    [] s = "Python" -> <<80, 121, 116, 104, 111, 110>>
    [] s = "D3.js" -> <<68, 51, 46, 106, 115>>
    [] s = "Planning" -> <<80, 108, 97, 110, 110, 105, 110, 103>>
    [] s = "HTML" -> <<72, 84, 77, 76>>
    [] s = "CSS" -> <<67, 83, 83>>
    [] s = "JavaScript" -> <<74, 97, 118, 97, 83, 99, 114, 105, 112, 116>>
    [] s = "React Native" -> <<82, 101, 97, 99, 116, 32, 78, 97, 116, 105, 118, 101>>
    [] s = "GraphQL" -> <<71, 114, 97, 112, 104, 81, 76>>
    [] s = "AI/ML" -> <<65, 73, 47, 77, 76>>
    [] s = "TensorFlow" -> <<84, 101, 110, 115, 111, 114, 70, 108, 111, 119>>
    [] s = "Dialogflow" -> <<68, 105, 97, 108, 111, 103, 102, 108, 111, 119>>
    [] s = "Tableau" -> <<84, 97, 98, 108, 101, 97, 117>>
    [] s = "SQL" -> <<83, 81, 76>>

\* a before b by code unit, a proper prefix first
RECURSIVE UnitsLess(_, _)
UnitsLess(a, b) ==
  IF b = <<>> THEN FALSE
  ELSE IF a = <<>> THEN TRUE
  ELSE IF a[1] # b[1] THEN a[1] < b[1]
  ELSE UnitsLess(Tail(a), Tail(b))

\* a < b in the order of Array.prototype.sort() without a comparator
StrLess(a, b) == UnitsLess(CodeUnits(a), CodeUnits(b))

\* String(n) for an integer n >= 0: its decimal digits
RECURSIVE NumToStr(_)
NumToStr(n) ==
  IF n < 10 THEN <<48 + n>> ELSE Append(NumToStr(n \div 10), 48 + (n % 10))

NaN == -1

\* ToNumber(s) for a string of decimal digits, NaN for any other string of the model
RECURSIVE ToNumber(_)
ToNumber(s) ==
  IF s = <<>> THEN 0
  ELSE LET c == s[Len(s)]
           rest == ToNumber(SubSeq(s, 1, Len(s) - 1))
       IN IF c < 48 \/ c > 57 \/ rest = NaN THEN NaN ELSE 10 * rest + (c - 48)

\* `Showing ${x} of ${y} results`
ShowingText(x, y) == [kind |-> "showing", x |-> NumToStr(x), y |-> NumToStr(y)]

LoadingText == [kind |-> "literal", text |-> "Loading data..."]

FailedText == [kind |-> "literal", text |-> "Failed to load data."]

\* the text the page markup gives #results-count, which no script has written yet
MarkupText == [kind |-> "literal", text |-> "(markup)"]

----------------------------------------------------------------------------
(* Datasets *)

FetchGroups == {"areas-of-support", "format", "price"}

InlineGroups == {"category", "status", "tech"}

Groups(v) == IF v = "fetch" THEN FetchGroups ELSE InlineGroups

\* the record field a checkbox group filters on
FieldOf(g) ==
  CASE g = "areas-of-support" -> "AreasOfSupport"
    [] g = "format" -> "Format"
    [] g = "price" -> "Price"

\* a record of database.json; AreasOfSupport and FurtherInfo stand for the keys
\* 'Areas of support' and 'Further info'
MakeRecord(idx, name, summary, areas, format, price, link, info) ==
  [ Index |-> idx, Name |-> name, Summary |-> summary,
    AreasOfSupport |-> areas, Format |-> format, Price |-> price,
    Link |-> link, FurtherInfo |-> info ]

\* records the fetched body of the page is drawn from: fields are missing, empty,
\* unsorted or hold a value twice, and one record has no Index
Records ==
  { MakeRecord(Present(Num(1)), "n1", "s1", Present(<<"B", "A">>), Present(<<"A">>), Absent,
               Present("l1"), Absent),
    MakeRecord(Present(Num(2)), "n2", "s2", Present(<<"B">>), Absent, Present(<<"A", "A">>),
               Absent, Present("i2")),
    MakeRecord(Absent, "n3", "s3", Absent, Present(<<>>), Present(<<"B">>),
               Absent, Absent) }

\* records the fetched body is drawn from where the detail view is followed: their
\* Index is the number 1, the string "01" and the string "a"
ModalRecords ==
  { MakeRecord(Present(Num(1)), "n1", "s1", Present(<<"A">>), Absent, Absent,
               Present("l1"), Absent),
    MakeRecord(Present(Str(<<48, 49>>)), "n2", "s2", Absent, Present(<<"B">>), Absent,
               Absent, Present("i2")),
    MakeRecord(Present(Str(<<97>>)), "n3", "s3", Absent, Absent, Present(<<"A">>),
               Absent, Absent) }

\* records the fetched body is drawn from where the outcomes of the load are told
\* apart: the last one has a number among its price tags
LoadRecords ==
  { MakeRecord(Present(Num(1)), "n1", "s1", Present(<<"B", "A">>), Present(<<"A">>), Absent,
               Absent, Absent),
    MakeRecord(Present(Num(2)), "n2", "s2", Present(<<"A">>), Absent, Present(<<"B">>),
               Absent, Absent),
    MakeRecord(Present(Num(3)), "n3", "s3", Present(<<"B">>), Absent, Present(<<NumberTag>>),
               Absent, Absent) }

\* records the fetched body is drawn from where only the filter pipeline runs
FilterRecords ==
  { MakeRecord(Present(Num(1)), "n", "s", areas, format, price, Absent, Absent) :
      areas \in {Present(<<"B", "A">>), Present(<<"A">>)},
      format \in {Absent, Present(<<"B", "AB", "A">>)},
      price \in {Present(<<>>), Present(<<"A", "A">>)} }

\* every sequence over S of length at most n
SeqsUpTo(S, n) == UNION { [1..k -> S] : k \in 0..n }

Datasets == SeqsUpTo(Records, MaxRecords)

FilterDatasets == SeqsUpTo(FilterRecords, MaxRecords)

LoadDatasets == SeqsUpTo(LoadRecords, MaxRecords)

ModalDatasets == SeqsUpTo(ModalRecords, MaxRecords)

\* const database = [...] of the inline script
InlineDatabase ==
  <<
    [ id |-> 1, title |-> "E-commerce Platform",
      description |-> "A full-featured e-commerce platform with a custom CMS, product management, and a secure checkout process. Built for scalability and high traffic.",
      category |-> "Web Development", status |-> "Completed",
      tech |-> << "React", "Node.js", "PostgreSQL" >> ],
    [ id |-> 2, title |-> "Mobile Banking App",
      description |-> "A native mobile application for iOS and Android that allows users to manage their bank accounts, transfer funds, and pay bills securely.",
      category |-> "Mobile App", status |-> "In Progress",
      tech |-> << "Swift", "Kotlin", "Firebase" >> ],
    [ id |-> 3, title |-> "Data Analytics Dashboard",
      description |-> "An interactive dashboard for visualizing complex sales and marketing data, with real-time updates and customizable reports.",
      category |-> "Data Science", status |-> "Completed",
      tech |-> << "Python", "D3.js", "React" >> ],
    [ id |-> 4, title |-> "Company Website Redesign",
      description |-> "A complete overhaul of the corporate website to improve user experience, accessibility, and search engine optimization.",
      category |-> "Web Development", status |-> "Planning",
      tech |-> << "HTML", "CSS", "JavaScript" >> ],
    [ id |-> 5, title |-> "Inventory Management System",
      description |-> "A web-based system for tracking inventory across multiple warehouses, with barcode scanning and automated reordering features.",
      category |-> "Web Development", status |-> "In Progress",
      tech |-> << "React", "Firebase" >> ],
    [ id |-> 6, title |-> "Fitness Tracker App",
      description |-> "A cross-platform mobile app that tracks user workouts, sets goals, and provides social sharing features.",
      category |-> "Mobile App", status |-> "Completed",
      tech |-> << "React Native", "GraphQL" >> ],
    [ id |-> 7, title |-> "AI Chatbot Integration",
      description |-> "An AI-powered chatbot integrated into the customer support portal to answer common questions and escalate complex issues to human agents.",
      category |-> "AI/ML", status |-> "In Progress",
      tech |-> << "Python", "TensorFlow", "Dialogflow" >> ],
    [ id |-> 8, title |-> "Marketing Campaign Analytics",
      description |-> "A data pipeline and visualization tool to track the performance of marketing campaigns across various channels.",
      category |-> "Data Science", status |-> "Planning",
      tech |-> << "Python", "Tableau", "SQL" >> ]
  >>

\* a record of the inline script with its tech key left out
WithoutTech(item) == [f \in DOMAIN item \ {"tech"} |-> item[f]]

\* records the array of the inline script is drawn from where the claim is about a
\* record that lacks its array field: two of its own and one with no tech
InlineRecords == {InlineDatabase[1], InlineDatabase[5], WithoutTech(InlineDatabase[6])}

InlineDatasets == SeqsUpTo(InlineRecords, MaxRecords)

----------------------------------------------------------------------------
(* Array helpers *)

\* field || []
OrEmpty(f) == IF f = Absent THEN <<>> ELSE f[1]

\* arr.includes(v)
Includes(arr, v) == \E j \in 1..Len(arr) : arr[j] = v

\* selected.every(v => arr.includes(v))
Every(selected, arr) == \A k \in 1..Len(selected) : Includes(arr, selected[k])

\* database.flatMap(item => item[field] || [])
RECURSIVE FlatMap(_, _)
FlatMap(db, field) ==
  IF db = <<>> THEN <<>>
  ELSE OrEmpty(Head(db)[field]) \o FlatMap(Tail(db), field)

\* item.tech is undefined: the record of the inline script has no tech key
LacksTech(item) == "tech" \notin DOMAIN item

\* database.flatMap(item => item.tech) of the inline script, but for the undefined
\* that flatMap keeps for each record with no tech (UndefinedLast)
RECURSIVE FlatMapTech(_)
FlatMapTech(db) ==
  IF db = <<>> THEN <<>>
  ELSE (IF LacksTech(Head(db)) THEN <<>> ELSE Head(db).tech) \o FlatMapTech(Tail(db))

\* the undefined of a record with no tech: the Set keeps one, sort() moves it behind
\* every string, and createCheckbox writes it as value="undefined"
UndefinedLast(db) ==
  IF \E n \in 1..Len(db) : LacksTech(db[n]) THEN <<"undefined">> ELSE <<>>

\* a Set that keeps every occurrence
UniqueSkipped(arr) == arr

\* [...new Set(arr)]: the first occurrence of each value, in order
RECURSIVE Unique(_)
Unique(arr) ==
  IF arr = <<>> THEN <<>>
  ELSE LET init == Unique(SubSeq(arr, 1, Len(arr) - 1))
           x == arr[Len(arr)]
       IN IF Includes(init, x) THEN init ELSE Append(init, x)

RECURSIVE Insert(_, _)
Insert(sorted, x) ==
  IF sorted = <<>> THEN <<x>>
  ELSE IF StrLess(x, Head(sorted)) THEN <<x>> \o sorted
  ELSE <<Head(sorted)>> \o Insert(Tail(sorted), x)

\* a sort that leaves the array as it is
SortSkipped(arr) == arr

\* arr.sort()
RECURSIVE Sort(_)
Sort(arr) ==
  IF arr = <<>> THEN <<>>
  ELSE Insert(Sort(SubSeq(arr, 1, Len(arr) - 1)), arr[Len(arr)])

----------------------------------------------------------------------------
(* populateFilters *)

\* the checkbox values of one group of the fetched page
FetchVocabulary(db, g) == Sort(Unique(FlatMap(db, FieldOf(g))))

\* the checkbox values of one group of the inline page
InlineVocabulary(db, g) ==
  CASE g = "category" -> Sort(Unique([k \in 1..Len(db) |-> db[k].category]))
    [] g = "status" -> Sort(Unique([k \in 1..Len(db) |-> db[k].status]))
    [] g = "tech" -> Sort(Unique(FlatMapTech(db))) \o UndefinedLast(db)

Vocabulary(v, db, g) ==
  IF v = "fetch" THEN FetchVocabulary(db, g) ELSE InlineVocabulary(db, g)

NoneChecked(v) == [g \in Groups(v) |-> {}]

\* createCheckbox(name, value) throws a TypeError: value.replace of the fetched page
\* when value is not a string (the inline script only interpolates value)
CreateCheckboxThrows(v, val) == v = "fetch" /\ ~IsString(val)

\* the position of the first value of voc, counted from k, that createCheckbox
\* throws on; 0 when it throws on none
RECURSIVE FirstBadValue(_, _, _)
FirstBadValue(v, voc, k) ==
  IF k > Len(voc) THEN 0
  ELSE IF CreateCheckboxThrows(v, voc[k]) THEN k
  ELSE FirstBadValue(v, voc, k + 1)

\* the groups whose checkboxes are created before those of group g
GroupsBefore(g) ==
  CASE g \in {"areas-of-support", "category"} -> {}
    [] g = "format" -> {"areas-of-support"}
    [] g = "status" -> {"category"}
    [] g = "price" -> {"areas-of-support", "format"}
    [] g = "tech" -> {"category", "status"}

\* populateFilters ends with the exception of a createCheckbox
PopulateFiltersThrows(v, db) ==
  \E g \in Groups(v) : FirstBadValue(v, Vocabulary(v, db, g), 1) # 0

\* the checkboxes of group g when populateFilters ends: the group's vocabulary, its
\* values before the one createCheckbox throws on, or none when an earlier group threw
CreatedBoxes(v, db, g) ==
  LET voc == Vocabulary(v, db, g)
      bad == FirstBadValue(v, voc, 1)
  IN IF \E h \in GroupsBefore(g) : FirstBadValue(v, Vocabulary(v, db, h), 1) # 0
     THEN <<>>
     ELSE IF bad = 0 THEN voc
     ELSE SubSeq(voc, 1, bad - 1)

\* the containers are emptied and one unchecked checkbox is created per value
PopulateFilters(v, db) ==
  /\ filters' = [g \in Groups(v) |-> CreatedBoxes(v, db, g)]
  /\ checked' = NoneChecked(v)

----------------------------------------------------------------------------
(* renderCard, populateResults *)

\* `${item.Index}`
IndexStr(idx) ==
  IF idx = Absent THEN UndefinedStr
  ELSE IF IsNum(idx[1]) THEN NumToStr(idx[1].num)
  ELSE idx[1].str

FetchCard(item) ==
  [ dataId |-> IndexStr(item.Index), h3 |-> item.Name, p |-> item.Summary,
    badges |-> OrEmpty(item.Format) ]

InlineCard(item) ==
  [ dataId |-> NumToStr(item.id), h3 |-> item.title, p |-> item.description,
    badges |-> item.tech ]

renderCard(v, item) == IF v = "fetch" THEN FetchCard(item) ELSE InlineCard(item)

\* renderCard throws a TypeError: item.tech.map of the inline script when item.tech
\* is undefined (the fetched page tests item.Format first)
RenderThrows(v, item) == v = "inline" /\ LacksTech(item)

\* the first of the records at positions its that renderCard throws on, counted
\* from k; 0 when it throws on none
RECURSIVE FirstThrow(_, _, _, _)
FirstThrow(v, its, db, k) ==
  IF k > Len(its) THEN 0
  ELSE IF RenderThrows(v, db[its[k]]) THEN k
  ELSE FirstThrow(v, its, db, k + 1)

\* populateResults(items) ends with the exception of a renderCard
PopulateResultsThrows(v, its, db) == FirstThrow(v, its, db, 1) # 0

\* the cards of the first n of the records at positions its
Cards(v, its, db, n) == [k \in 1..n |-> renderCard(v, db[its[k]])]

\* a count string whose total is the number of displayed records
ShowingOfShown(n, total) == ShowingText(n, n)

CountText(n, total) == ShowingText(n, total)

\* a populateResults whose empty branch shows the message but leaves the grid as
\* it was
PopulateResultsKeepsGrid(v, its, db) ==
  LET bad == FirstThrow(v, its, db, 1)
  IN /\ items' = its
     /\ gridHidden' = IF Len(its) > 0 THEN FALSE ELSE gridHidden
     /\ noResultsHidden' = (Len(its) > 0)
     /\ IF bad = 0
        THEN /\ resultsGrid' = Cards(v, its, db, Len(its))
             /\ resultsCount' = CountText(Len(its), Len(db))
        ELSE /\ resultsGrid' = Cards(v, its, db, bad - 1)
             /\ UNCHANGED resultsCount

\* its: the positions in db of the records to display; when a renderCard throws,
\* the cards before it stay in the grid and the count is not written
populateResults(v, its, db) ==
  LET bad == FirstThrow(v, its, db, 1)
  IN /\ items' = its
     /\ gridHidden' = ~(Len(its) > 0)
     /\ noResultsHidden' = (Len(its) > 0)
     /\ IF bad = 0
        THEN /\ resultsGrid' = Cards(v, its, db, Len(its))
             /\ resultsCount' = CountText(Len(its), Len(db))
        ELSE /\ resultsGrid' = Cards(v, its, db, bad - 1)
             /\ UNCHANGED resultsCount

AllPositions(db) == [k \in 1..Len(db) |-> k]

----------------------------------------------------------------------------
(* filterData *)

\* formData.getAll(name): the checked values of a group, in DOM order
GetAll(boxes, chk) == SelectSeq(boxes, LAMBDA val : val \in chk)

\* a group match that asks for some selected value instead of every one
GroupMatchSome(selected, arr) ==
  Len(selected) = 0 \/ \E k \in 1..Len(selected) : Includes(arr, selected[k])

\* a group match whose emptiness test is inverted
GroupMatchNonEmpty(selected, arr) == Len(selected) # 0 /\ Every(selected, arr)

\* selected.length === 0 || selected.every(v => (field || []).includes(v))
GroupMatch(selected, arr) == Len(selected) = 0 \/ Every(selected, arr)

\* selected.length === 0 || selected.includes(item.category)
ScalarMatch(selected, value) == Len(selected) = 0 \/ Includes(selected, value)

\* an item match that is content with one matching group
FetchItemMatchAnyGroup(item, sel) ==
  \/ Len(sel["areas-of-support"]) # 0
       /\ Every(sel["areas-of-support"], OrEmpty(item.AreasOfSupport))
  \/ Len(sel["format"]) # 0 /\ Every(sel["format"], OrEmpty(item.Format))
  \/ Len(sel["price"]) # 0 /\ Every(sel["price"], OrEmpty(item.Price))
  \/ \A g \in FetchGroups : Len(sel[g]) = 0

FetchItemMatch(item, sel) ==
  LET areasOfSupportMatch == GroupMatch(sel["areas-of-support"], OrEmpty(item.AreasOfSupport))
      formatMatch == GroupMatch(sel["format"], OrEmpty(item.Format))
      priceMatch == GroupMatch(sel["price"], OrEmpty(item.Price))
  IN areasOfSupportMatch /\ formatMatch /\ priceMatch

InlineItemMatch(item, sel) ==
  LET categoryMatch == ScalarMatch(sel["category"], item.category)
      statusMatch == ScalarMatch(sel["status"], item.status)
      techMatch == GroupMatch(sel["tech"], item.tech)
  IN categoryMatch /\ statusMatch /\ techMatch

ItemMatch(v, item, sel) ==
  IF v = "fetch" THEN FetchItemMatch(item, sel) ELSE InlineItemMatch(item, sel)

\* a filter that collects the matching records last to first
RECURSIVE FilterUpToReversed(_, _, _, _)
FilterUpToReversed(v, db, sel, n) ==
  IF n = 0 THEN <<>>
  ELSE LET rest == FilterUpToReversed(v, db, sel, n - 1)
       IN IF ItemMatch(v, db[n], sel) THEN <<n>> \o rest ELSE rest

\* database.filter(...) over the first n records, as positions
RECURSIVE FilterUpTo(_, _, _, _)
FilterUpTo(v, db, sel, n) ==
  IF n = 0 THEN <<>>
  ELSE LET rest == FilterUpTo(v, db, sel, n - 1)
       IN IF ItemMatch(v, db[n], sel) THEN Append(rest, n) ELSE rest

Selected(v, boxes, chk) == [g \in Groups(v) |-> GetAll(boxes[g], chk[g])]

filteredItems(v, db, boxes, chk) == FilterUpTo(v, db, Selected(v, boxes, chk), Len(db))

\* the callback of database.filter throws a TypeError: item.tech.includes of the
\* inline script, reached when a tech value is selected and item.tech is undefined
FilterThrows(v, db, sel) ==
  /\ v = "inline"
  /\ Len(sel["tech"]) > 0
  /\ \E n \in 1..Len(db) : LacksTech(db[n])

\* filterData ends with an exception, of the filter or of populateResults
FilterDataThrows(v, db, boxes, chk) ==
  \/ FilterThrows(v, db, Selected(v, boxes, chk))
  \/ PopulateResultsThrows(v, filteredItems(v, db, boxes, chk), db)

\* boxes, chk: the form's checkboxes and which of them are checked when it runs
filterData(v, db, boxes, chk) ==
  IF FilterThrows(v, db, Selected(v, boxes, chk))
  THEN UNCHANGED resultVars
  ELSE populateResults(v, filteredItems(v, db, boxes, chk), db)

----------------------------------------------------------------------------
(* openModal, closeModal *)

\* i.Index == itemId, itemId a data-id attribute (a string): undefined equals no
\* string, a number is compared with ToNumber(itemId), a string with itemId itself
LooseEq(idx, itemId) ==
  /\ idx # Absent
  /\ IF IsNum(idx[1]) THEN ToNumber(itemId) = idx[1].num ELSE idx[1].str = itemId

\* database.find(i => i.Index == itemId) over the records from position n on:
\* the position of the first match, 0 when there is none
RECURSIVE FindFrom(_, _, _)
FindFrom(db, itemId, n) ==
  IF n > Len(db) THEN 0
  ELSE IF LooseEq(db[n].Index, itemId) THEN n
  ELSE FindFrom(db, itemId, n + 1)

Find(db, itemId) == FindFrom(db, itemId, 1)

Section(h4, badges, text) == [h4 |-> h4, badges |-> badges, text |-> text]

BadgeSection(h4, field) ==
  IF field # Absent /\ Len(field[1]) > 0 THEN <<Section(h4, field[1], "")>> ELSE <<>>

TextSection(h4, field) ==
  IF field # Absent /\ field[1] # "" THEN <<Section(h4, <<>>, field[1])>> ELSE <<>>

\* contentHTML of openModal
ContentHTML(item) ==
  <<Section("", <<>>, item.Summary)>>
    \o BadgeSection("Areas of Support", item.AreasOfSupport)
    \o BadgeSection("Format", item.Format)
    \o BadgeSection("Price", item.Price)
    \o TextSection("Link", item.Link)
    \o TextSection("Further Information", item.FurtherInfo)

OpenDelay == 10

CloseDelay == 300

ResetDelay == 0

Delay(kind) ==
  CASE kind = "open" -> OpenDelay
    [] kind = "close" -> CloseDelay
    [] kind = "reset" -> ResetDelay

\* the timer at position i can be the next to fire: no timer set before it is due
\* at or before it
CanFire(i) ==
  /\ i \in 1..Len(timers)
  /\ \A j \in 1..(i - 1) : Delay(timers[j]) > Delay(timers[i])

Without(seq, i) == SubSeq(seq, 1, i - 1) \o SubSeq(seq, i + 1, Len(seq))

\* setTimeout(callback, Delay(kind))
SetTimeout(kind) == timers' = Append(timers, kind)

\* an openModal that goes on when no record is found: reading item.Name throws
OpenModalUnguarded(itemId) ==
  LET pos == Find(database, itemId)
  IN IF pos = 0
     THEN /\ uncaught' = TRUE
          /\ UNCHANGED << modalVars, timers >>
     ELSE /\ modalTitle' = database[pos].Name
          /\ modalContent' = ContentHTML(database[pos])
          /\ containerHidden' = FALSE
          /\ SetTimeout("open")
          /\ bodyOverflow' = "hidden"
          /\ openSinceClose' = TRUE
          /\ UNCHANGED << panelHidden, uncaught >>

openModal(itemId) ==
  LET pos == Find(database, itemId)
  IN IF pos = 0
     THEN UNCHANGED << modalVars, timers, uncaught >>
     ELSE /\ Len(timers) < MaxTimers
          /\ modalTitle' = database[pos].Name
          /\ modalContent' = ContentHTML(database[pos])
          /\ containerHidden' = FALSE
          /\ SetTimeout("open")
          /\ bodyOverflow' = "hidden"
          /\ openSinceClose' = TRUE
          /\ UNCHANGED << panelHidden, uncaught >>

closeModal ==
  /\ Len(timers) < MaxTimers
  /\ panelHidden' = TRUE
  /\ SetTimeout("close")
  /\ openSinceClose' = FALSE
  /\ UNCHANGED << modalTitle, modalContent, containerHidden, bodyOverflow >>

----------------------------------------------------------------------------
(* The page after its DOMContentLoaded listener has run *)

\* the handler that ran last, and the data-id it was given (card clicks only)
RanWith(handler, arg) == [handler |-> handler, arg |-> arg]

Ran(handler) == RanWith(handler, <<>>)

\* fetchDatabase has run up to its first await
InitFetch ==
  /\ variant = "fetch"
  /\ pc = "awaitFetch"
  /\ database = <<>>
  /\ filters = [g \in FetchGroups |-> <<>>]
  /\ checked = NoneChecked("fetch")
  /\ items = <<>>
  /\ resultsGrid = <<>>
  /\ gridHidden = FALSE
  /\ noResultsHidden = TRUE
  /\ noResultsH3 = "(markup)"
  /\ noResultsP = "(markup)"
  /\ resultsCount = LoadingText
  /\ loadingHidden = FALSE
  /\ modalTitle = ""
  /\ modalContent = <<>>
  /\ containerHidden = TRUE
  /\ panelHidden = TRUE
  /\ bodyOverflow = ""
  /\ timers = <<>>
  /\ openSinceClose = FALSE
  /\ last = Ran("init")
  /\ uncaught = FALSE

\* populateFilters(); populateResults(database); of the inline script have run, with
\* db the array of its const database
InitInlineWith(db) ==
  /\ variant = "inline"
  /\ pc = "loaded"
  /\ database = db
  /\ filters = [g \in InlineGroups |-> InlineVocabulary(db, g)]
  /\ checked = NoneChecked("inline")
  /\ items = AllPositions(db)
  /\ gridHidden = ~(Len(db) > 0)
  /\ noResultsHidden = (Len(db) > 0)
  /\ LET bad == FirstThrow("inline", AllPositions(db), db, 1)
     IN IF bad = 0
        THEN /\ resultsGrid = Cards("inline", AllPositions(db), db, Len(db))
             /\ resultsCount = ShowingText(Len(db), Len(db))
             /\ uncaught = FALSE
        ELSE /\ resultsGrid = Cards("inline", AllPositions(db), db, bad - 1)
             /\ resultsCount = MarkupText
             /\ uncaught = TRUE
  /\ noResultsH3 = "(markup)"
  /\ noResultsP = "(markup)"
  /\ loadingHidden = TRUE
  /\ modalTitle = ""
  /\ modalContent = <<>>
  /\ containerHidden = TRUE
  /\ panelHidden = TRUE
  /\ bodyOverflow = ""
  /\ timers = <<>>
  /\ openSinceClose = FALSE
  /\ last = Ran("init")

\* the inline script as it is
InitInline == InitInlineWith(InlineDatabase)

Init == InitFetch

----------------------------------------------------------------------------
(* fetchDatabase *)

\* a catch block that renders the empty result list instead of the error
CatchShowsEmptyState ==
  /\ resultsCount' = ShowingText(0, Len(database))
  /\ noResultsHidden' = FALSE
  /\ loadingHidden' = TRUE
  /\ pc' = "failed"
  /\ uncaught' = FALSE
  /\ UNCHANGED << variant, database, filterVars, items, resultsGrid, gridHidden,
                  noResultsH3, noResultsP, modalVars, timers >>

\* a catch block with no finally block after it: the indicator is hidden on the
\* normal path only
CatchWithoutFinally ==
  /\ resultsCount' = FailedText
  /\ noResultsHidden' = FALSE
  /\ noResultsH3' = "Error loading data"
  /\ noResultsP' = "Please try again later."
  /\ UNCHANGED loadingHidden
  /\ pc' = "failed"
  /\ uncaught' = FALSE

\* what the catch block and then the finally block write
CatchFinally ==
  /\ resultsCount' = FailedText
  /\ noResultsHidden' = FALSE
  /\ noResultsH3' = "Error loading data"
  /\ noResultsP' = "Please try again later."
  /\ loadingHidden' = TRUE
  /\ pc' = "failed"
  /\ uncaught' = FALSE

\* the catch block, then the finally block, entered before database is assigned
CatchLoadError ==
  /\ CatchFinally
  /\ UNCHANGED << variant, database, filterVars, items, resultsGrid, gridHidden,
                  modalVars, timers >>

\* fetch('database.json') rejects
FetchReject ==
  /\ pc = "awaitFetch"
  /\ last' = Ran("fetchReject")
  /\ CatchLoadError

\* the response arrives and response.ok is false
HttpError ==
  /\ pc = "awaitFetch"
  /\ last' = Ran("httpError")
  /\ CatchLoadError

\* the response arrives and response.ok is true: await response.json()
ResponseOk ==
  /\ pc = "awaitFetch"
  /\ pc' = "awaitJson"
  /\ last' = Ran("responseOk")
  /\ uncaught' = FALSE
  /\ UNCHANGED << variant, database, filterVars, resultVars, noResultsH3, noResultsP,
                  loadingHidden, modalVars, timers >>

\* response.json() rejects
JsonFail ==
  /\ pc = "awaitJson"
  /\ last' = Ran("jsonFail")
  /\ CatchLoadError

\* a load handler that derives the checkboxes and the cards from the dataset it
\* had, and assigns the parsed body last
JsonParsedDerivesFirst(body) ==
  /\ pc = "awaitJson"
  /\ PopulateFilters(variant, database)
  /\ populateResults(variant, AllPositions(database), database)
  /\ database' = body
  /\ loadingHidden' = TRUE
  /\ pc' = "loaded"
  /\ last' = RanWith("loaded", body)
  /\ uncaught' = FALSE
  /\ UNCHANGED << variant, noResultsH3, noResultsP, modalVars, timers >>

\* response.json() resolves with body: the body is assigned, and the try block ends
\* normally or, when a createCheckbox of populateFilters throws, in the catch block
JsonParsed(body) ==
  /\ pc = "awaitJson"
  /\ database' = body
  /\ PopulateFilters(variant, body)
  /\ IF PopulateFiltersThrows(variant, body)
     THEN /\ CatchFinally
          /\ last' = RanWith("loadThrew", body)
          /\ UNCHANGED << items, resultsGrid, gridHidden >>
     ELSE /\ populateResults(variant, AllPositions(body), body)
          /\ loadingHidden' = TRUE
          /\ pc' = "loaded"
          /\ last' = RanWith("loaded", body)
          /\ uncaught' = FALSE
          /\ UNCHANGED << noResultsH3, noResultsP >>
  /\ UNCHANGED << variant, modalVars, timers >>

----------------------------------------------------------------------------
(* Event listeners *)

NumChecked == Cardinality(UNION { {g} \X checked[g] : g \in Groups(variant) })

Toggle(chk, g, val) ==
  [chk EXCEPT ![g] = IF val \in chk[g] THEN chk[g] \ {val} ELSE chk[g] \cup {val}]

\* a change listener that keeps the filtered records as the dataset
\* (database = database.filter(...))
ChangeNarrowsDataset(g, val) ==
  /\ Includes(filters[g], val)
  /\ val \in checked[g] \/ NumChecked < MaxChecked
  /\ checked' = Toggle(checked, g, val)
  /\ LET kept == filteredItems(variant, database, filters, checked')
     IN /\ database' = [k \in 1..Len(kept) |-> database[kept[k]]]
        /\ populateResults(variant, AllPositions(database'), database')
  /\ last' = Ran("change")
  /\ uncaught' = FALSE
  /\ UNCHANGED << variant, pc, filters, noResultsH3, noResultsP, loadingHidden,
                  modalVars, timers >>

\* the user clicks the checkbox val of group g: 'change' on the form
Change(g, val) ==
  /\ Includes(filters[g], val)
  /\ val \in checked[g] \/ NumChecked < MaxChecked
  /\ checked' = Toggle(checked, g, val)
  /\ filterData(variant, database, filters, checked')
  /\ last' = Ran("change")
  /\ uncaught' = FilterDataThrows(variant, database, filters, checked')
  /\ UNCHANGED << variant, pc, database, filters, noResultsH3, noResultsP, loadingHidden,
                  modalVars, timers >>

\* the user resets the form: the listener sets its timer, then the form unchecks
\* every checkbox
Reset ==
  /\ Len(timers) < MaxTimers
  /\ SetTimeout("reset")
  /\ checked' = NoneChecked(variant)
  /\ last' = Ran("reset")
  /\ uncaught' = FALSE
  /\ UNCHANGED << variant, pc, database, filters, resultVars, noResultsH3, noResultsP,
                  loadingHidden, modalVars >>

\* a timer callback that filters with the selection the form had right after the reset
ResetTimerSnapshot(i) ==
  /\ CanFire(i)
  /\ timers[i] = "reset"
  /\ timers' = Without(timers, i)
  /\ filterData(variant, database, filters, NoneChecked(variant))
  /\ last' = Ran("resetTimer")
  /\ uncaught' = FALSE
  /\ UNCHANGED << variant, pc, database, filterVars, noResultsH3, noResultsP,
                  loadingHidden, modalVars >>

\* setTimeout(filterData, 0) fires
ResetTimer(i) ==
  /\ CanFire(i)
  /\ timers[i] = "reset"
  /\ timers' = Without(timers, i)
  /\ filterData(variant, database, filters, checked)
  /\ last' = Ran("resetTimer")
  /\ uncaught' = FilterDataThrows(variant, database, filters, checked)
  /\ UNCHANGED << variant, pc, database, filterVars, noResultsH3, noResultsP,
                  loadingHidden, modalVars >>

\* the user clicks the k-th card of the grid
CardClick(k) ==
  /\ k \in 1..Len(resultsGrid)
  /\ ~gridHidden
  /\ openModal(resultsGrid[k].dataId)
  /\ last' = RanWith("cardClick", resultsGrid[k].dataId)
  /\ UNCHANGED << variant, pc, database, filterVars, resultVars, noResultsH3, noResultsP,
                  loadingHidden >>

\* the user clicks the close button or the overlay, which are in the modal container
\* and take no click while it is hidden
CloseClick ==
  /\ ~containerHidden
  /\ closeModal
  /\ last' = Ran("closeClick")
  /\ uncaught' = FALSE
  /\ UNCHANGED << variant, pc, database, filterVars, resultVars, noResultsH3, noResultsP,
                  loadingHidden >>

\* the user presses Escape
Escape ==
  /\ ~containerHidden
  /\ closeModal
  /\ last' = Ran("escape")
  /\ uncaught' = FALSE
  /\ UNCHANGED << variant, pc, database, filterVars, resultVars, noResultsH3, noResultsP,
                  loadingHidden >>

\* setTimeout(() => infoModal.classList.remove('hidden'), 10) fires
OpenTimer(i) ==
  /\ CanFire(i)
  /\ timers[i] = "open"
  /\ timers' = Without(timers, i)
  /\ panelHidden' = FALSE
  /\ last' = Ran("openTimer")
  /\ uncaught' = FALSE
  /\ UNCHANGED << variant, pc, database, filterVars, resultVars, noResultsH3, noResultsP,
                  loadingHidden, modalTitle, modalContent, containerHidden, bodyOverflow,
                  openSinceClose >>

\* the 300 ms timer of closeModal fires
CloseTimer(i) ==
  /\ CanFire(i)
  /\ timers[i] = "close"
  /\ timers' = Without(timers, i)
  /\ containerHidden' = TRUE
  /\ bodyOverflow' = ""
  /\ last' = Ran("closeTimer")
  /\ uncaught' = FALSE
  /\ UNCHANGED << variant, pc, database, filterVars, resultVars, noResultsH3, noResultsP,
                  loadingHidden, modalTitle, modalContent, panelHidden, openSinceClose >>

TimerSlots == 1..MaxTimers

\* response.json() resolves with one of the datasets of D
Load(D) == pc = "awaitJson" /\ \E body \in D : JsonParsed(body)

\* the user clicks one of the checkboxes of the form
ChangeAny ==
  \E g \in DOMAIN filters : \E k \in 1..Len(filters[g]) : Change(g, filters[g][k])

\* the user clicks one of the cards of the grid
CardClickAny == \E k \in 1..Len(resultsGrid) : CardClick(k)

LoadPage == Load(Datasets)

\* the page of src/unnamed/part_000 (and of src/Logic.js lines 190-465)
Next ==
  \/ FetchReject
  \/ HttpError
  \/ ResponseOk
  \/ JsonFail
  \/ LoadPage
  \/ ChangeAny
  \/ Reset
  \/ \E i \in TimerSlots : ResetTimer(i)
  \/ CardClickAny
  \/ CloseClick
  \/ Escape
  \/ \E i \in TimerSlots : OpenTimer(i)
  \/ \E i \in TimerSlots : CloseTimer(i)

Spec == Init /\ [][Next]_vars

\* the filter pipeline of both pages: the fetched page over the datasets of
\* FilterDatasets, and the inline page over its own dataset
InitFilter == InitFetch \/ InitInline

LoadFilter == Load(FilterDatasets)

NextFilter ==
  \/ FetchReject
  \/ HttpError
  \/ ResponseOk
  \/ JsonFail
  \/ LoadFilter
  \/ ChangeAny
  \/ Reset
  \/ \E i \in TimerSlots : ResetTimer(i)

SpecFilter == InitFilter /\ [][NextFilter]_vars

\* the detail view of the fetched page over the datasets of ModalDatasets
LoadModal == Load(ModalDatasets)

NextModal ==
  \/ ResponseOk
  \/ LoadModal
  \/ CardClickAny
  \/ CloseClick
  \/ Escape
  \/ \E i \in TimerSlots : OpenTimer(i)
  \/ \E i \in TimerSlots : CloseTimer(i)

SpecModal == InitFetch /\ [][NextModal]_vars

\* the load of the fetched page in each of its outcomes, and the filter form after
\* it; the fetch settles, and the code after each await runs
LoadData == Load(LoadDatasets)

NextLoad ==
  \/ FetchReject
  \/ HttpError
  \/ ResponseOk
  \/ JsonFail
  \/ LoadData
  \/ ChangeAny
  \/ Reset
  \/ \E i \in TimerSlots : ResetTimer(i)

SpecLoad ==
  /\ InitFetch
  /\ [][NextLoad]_vars
  /\ WF_vars(FetchReject \/ HttpError \/ ResponseOk)
  /\ WF_vars(JsonFail \/ LoadData)

\* the filter pipeline over records that lack fields: the fetched page over the
\* datasets of Datasets, and the inline script over the arrays of InlineDatasets
InitAbsent == InitFetch \/ \E db \in InlineDatasets : InitInlineWith(db)

NextAbsent ==
  \/ ResponseOk
  \/ LoadPage
  \/ ChangeAny
  \/ Reset
  \/ \E i \in TimerSlots : ResetTimer(i)

SpecAbsent == InitAbsent /\ [][NextAbsent]_vars

----------------------------------------------------------------------------
(* Properties *)

Range(seq) == { seq[k] : k \in 1..Len(seq) }

\* a setTimeout(filterData, 0) is pending: the grid may show an older selection
ResetPending == \E i \in 1..Len(timers) : timers[i] = "reset"

Displayed(n) == \E k \in 1..Len(items) : items[k] = n

\* Matches of the specification: every group's field holds every value selected in it
Matches(item, chk) ==
  /\ chk["areas-of-support"] \subseteq Range(OrEmpty(item.AreasOfSupport))
  /\ chk["format"] \subseteq Range(OrEmpty(item.Format))
  /\ chk["price"] \subseteq Range(OrEmpty(item.Price))

\* C1: on the fetched page, once filterData has run for the current selection, a record
\* of the dataset is displayed if and only if, in every filter group, its array field
\* (empty when absent) holds every value checked in that group.
C1_FilterKeepsExactlyMatches ==
  (variant = "fetch" /\ ~ResetPending) =>
    \A n \in 1..Len(database) : Displayed(n) <=> Matches(database[n], checked)

\* C1 witness: records with tags [B, A] and [A], both A and B checked: only the first
\* record is displayed.
C1_Witness ==
  /\ variant = "fetch"
  /\ last.handler = "change"
  /\ Len(database) = 2
  /\ database[1].AreasOfSupport = Present(<<"B", "A">>)
  /\ database[2].AreasOfSupport = Present(<<"A">>)
  /\ checked = [NoneChecked("fetch") EXCEPT !["areas-of-support"] = {"A", "B"}]
  /\ items = <<1>>

\* the item match of the page for a set of checked values per group
MatchesChecked(n, chk) == ItemMatch(variant, database[n], Selected(variant, filters, chk))

Unchecked(g) == Range(filters[g]) \ checked[g]

\* C2 as claimed: in every group of either page, checking one more value never turns
\* a record that does not match into one that matches.
C2_MonotonicInEveryGroup ==
  \A n \in 1..Len(database) :
    ~MatchesChecked(n, checked) =>
      \A g \in DOMAIN filters : \A val \in Unchecked(g) :
        ~MatchesChecked(n, Toggle(checked, g, val))

ScalarGroups == {"category", "status"}

\* C2 amended: checking one more value never turns a non-match into a match in the
\* array-valued groups (areas-of-support, format, price, tech), nor in the category
\* and status groups of the inline page while that group has nothing checked.
C2_MonotonicInArrayGroups ==
  \A n \in 1..Len(database) :
    ~MatchesChecked(n, checked) =>
      \A g \in DOMAIN filters : \A val \in Unchecked(g) :
        (g \notin ScalarGroups \/ checked[g] = {}) =>
          ~MatchesChecked(n, Toggle(checked, g, val))

\* C2 witness: a change left a record out, and a further value of an array-valued
\* group can still be checked.
C2_Witness ==
  /\ last.handler = "change"
  /\ ~ResetPending
  /\ \E n \in 1..Len(database) : ~Displayed(n) /\ ~MatchesChecked(n, checked)
  /\ \E g \in DOMAIN filters : g \notin ScalarGroups /\ checked[g] # {} /\ Unchecked(g) # {}

\* C3: the positions handed to populateResults are positions of the current dataset
\* in strictly increasing order: no record is made up, repeated or reordered, and the
\* grid holds one card per position.
C3_DisplayedIsSubsequence ==
  /\ \A k \in 1..Len(items) : items[k] \in 1..Len(database)
  /\ \A k \in 2..Len(items) : items[k - 1] < items[k]
  /\ Len(resultsGrid) = Len(items)

\* C3 witness: a toggle or a reset timer has rendered two records of a loaded dataset.
C3_Witness ==
  /\ pc = "loaded"
  /\ last.handler \in {"change", "resetTimer"}
  /\ Len(items) = 2

AllUnchecked == \A g \in DOMAIN checked : checked[g] = {}

\* C4: with nothing checked in any group and no reset timer pending, the displayed
\* sequence is the whole dataset in its order; so it is once a reset has been processed.
C4_EmptySelectionShowsAll ==
  (AllUnchecked /\ ~ResetPending) =>
    /\ items = AllPositions(database)
    /\ Len(resultsGrid) = Len(database)

\* C4 witness: the timer of a reset has just run over a loaded dataset of two records.
C4_Witness ==
  /\ pc = "loaded"
  /\ last.handler = "resetTimer"
  /\ AllUnchecked
  /\ ~ResetPending
  /\ Len(database) = 2
  /\ items = <<1, 2>>

Permuted(db, f) == [k \in 1..Len(db) |-> db[f[k]]]

\* C5: when the load handler of the fetched page has run, the checkboxes of each group
\* are the vocabulary of every permutation of the dataset, hold exactly the values that
\* occur in the group's field of some record, and hold no value twice.
C5_VocabularyOrderInvariant ==
  (variant = "fetch" /\ last.handler = "loaded") =>
    \A g \in FetchGroups :
      /\ \A f \in Permutations(1..Len(database)) :
           FetchVocabulary(Permuted(database, f), g) = filters[g]
      /\ Range(filters[g]) =
           UNION { Range(OrEmpty(database[n][FieldOf(g)])) : n \in 1..Len(database) }
      /\ \A j, k \in 1..Len(filters[g]) : filters[g][j] = filters[g][k] => j = k

\* C5 witness: the first occurrences of the tags come in one order (A, B) in this
\* dataset and in the other (B, A) with its two records swapped.
C5_Witness ==
  /\ variant = "fetch"
  /\ last.handler = "loaded"
  /\ Len(database) = 2
  /\ database[1].AreasOfSupport = Present(<<"A">>)
  /\ database[2].AreasOfSupport = Present(<<"B", "A">>)
  /\ filters["areas-of-support"] = <<"A", "B">>

\* C6: in every group of either page each checkbox value is strictly greater, by code
\* unit, than the one before it.
C6_CheckboxesAscending ==
  \A g \in DOMAIN filters : \A k \in 2..Len(filters[g]) :
    UnitsLess(CodeUnits(filters[g][k - 1]), CodeUnits(filters[g][k]))

\* C6 witness: a loaded dataset whose format tags B, AB, A come out as A, AB, B.
C6_Witness ==
  /\ variant = "fetch"
  /\ last.handler = "loaded"
  /\ \E n \in 1..Len(database) : database[n].Format = Present(<<"B", "AB", "A">>)
  /\ filters["format"] = <<"A", "AB", "B">>

Rendering == {"loaded", "change", "resetTimer"}

\* C7: after every handler that calls populateResults the count string is
\* 'Showing X of Y results', and whenever it is, X reads as the number of displayed
\* records and Y as the size of the dataset.
C7_CountString ==
  /\ last.handler \in Rendering => resultsCount.kind = "showing"
  /\ resultsCount.kind = "showing" =>
       /\ ToNumber(resultsCount.x) = Len(items)
       /\ ToNumber(resultsCount.x) = Len(resultsGrid)
       /\ ToNumber(resultsCount.y) = Len(database)

\* C7 witness: two records, one match: 'Showing 1 of 2 results'.
C7_Witness ==
  /\ last.handler = "change"
  /\ Len(database) = 2
  /\ Len(items) = 1
  /\ resultsCount = [kind |-> "showing", x |-> <<49>>, y |-> <<50>>]

LoadFailures == {"fetchReject", "httpError", "jsonFail"}

\* C8: when fetch rejects, the response is not ok or the body does not parse, the
\* dataset is empty, no record is displayed, and the page shows 'Failed to load data.'
\* and the heading 'Error loading data', not a count string.
C8_LoadFailureShowsError ==
  last.handler \in LoadFailures =>
    /\ pc = "failed"
    /\ database = <<>>
    /\ resultsGrid = <<>>
    /\ resultsCount = FailedText
    /\ resultsCount # ShowingText(0, 0)
    /\ ~noResultsHidden
    /\ noResultsH3 = "Error loading data"
    /\ loadingHidden

\* C8 witness: the body failed to parse after the form had been reset and rendered.
C8_Witness ==
  /\ last.handler = "jsonFail"
  /\ gridHidden
  /\ resultsCount = FailedText

\* C9 as claimed: once the load has failed the page keeps showing the load-failed
\* text and heading, and never a count string.
C9_LoadFailureStaysVisible ==
  pc = "failed" =>
    /\ resultsCount = FailedText
    /\ noResultsH3 = "Error loading data"

\* C10: a card click whose data-id matches no record of the dataset changes nothing of
\* the modal, the scroll lock or the timers, and ends without an exception.
C10_OpenModalMissIsNoOp ==
  [][(last'.handler = "cardClick" /\ Find(database, last'.arg) = 0) =>
       /\ UNCHANGED << modalVars, timers >>
       /\ ~uncaught']_vars

\* C10 witness: the card of a record without Index was clicked while the modal of
\* another record was open.
C10_Witness ==
  /\ last.handler = "cardClick"
  /\ last.arg = UndefinedStr
  /\ Find(database, last.arg) = 0
  /\ ~containerHidden
  /\ modalTitle = "n1"

\* FilterDataset of the specification: the positions of the records that match the
\* selection, in dataset order
FilterDataset(db, chk) == SelectSeq(AllPositions(db), LAMBDA n : Matches(db[n], chk))

\* C11: on the fetched page, when the handler of a checkbox toggle has run, and when
\* the zero-delay timer of a reset has run, the displayed sequence is the dataset
\* filtered by the selection the form has at that moment, whatever toggles came
\* between the reset and its timer.
C11_DisplayRecomputedAfterEvent ==
  (variant = "fetch" /\ last.handler \in {"change", "resetTimer"}) =>
    /\ items = FilterDataset(database, checked)
    /\ resultsGrid = [k \in 1..Len(items) |-> FetchCard(database[items[k]])]

\* C11 witness: a checkbox was checked between a reset and its timer, and the timer
\* rendered the records that match it, not the whole dataset.
C11_Witness ==
  /\ variant = "fetch"
  /\ last.handler = "resetTimer"
  /\ ~AllUnchecked
  /\ Len(items) < Len(database)
  /\ items = FilterDataset(database, checked)

\* C12: the dataset changes only in the step of the load handler that receives the
\* parsed body; once that handler has ended, with the dataset loaded or the load
\* failed, no toggle, reset, card click, close event or timer changes the dataset,
\* and no second load is started.
C12_DatasetWrittenOnceByLoader ==
  [][ /\ database' # database => (pc = "awaitJson" /\ pc' \in {"loaded", "failed"})
      /\ pc # "awaitFetch" => pc' # "awaitFetch"
      /\ pc \in {"loaded", "failed"} => (pc' = pc /\ database' = database) ]_vars

\* C12 witness: over a loaded dataset of two records a checkbox is checked and the
\* detail view has been opened and closed.
C12_Witness ==
  /\ pc = "loaded"
  /\ Len(database) = 2
  /\ ~AllUnchecked
  /\ last.handler = "closeTimer"
  /\ modalTitle # ""

\* record n of the dataset has no field for filter group g
LacksField(n, g) ==
  IF variant = "fetch" THEN database[n][FieldOf(g)] = Absent
  ELSE g = "tech" /\ LacksTech(database[n])

\* C13 as claimed: on either page, when a toggle or the timer of a reset has run, a
\* record that lacks the array field of a group was filtered without an exception
\* and as if the field were empty: it is displayed if and only if nothing is
\* checked in that group and the other groups match.
C13_AbsentFieldFiltersAsEmpty ==
  last.handler \in {"change", "resetTimer"} =>
    \A n \in 1..Len(database) : \A g \in DOMAIN filters :
      LacksField(n, g) =>
        /\ checked[g] # {} => ~uncaught
        /\ Displayed(n) <=>
             (checked[g] = {} /\ MatchesChecked(n, [checked EXCEPT ![g] = {}]))

\* the same for the fetched page alone
C13_FetchedPageOnly == variant = "fetch" => C13_AbsentFieldFiltersAsEmpty

\* C14: when the load handler has ended normally, the dataset is the parsed body,
\* each group's checkboxes hold exactly the values of that body's records, nothing
\* is checked, every record of the body is displayed in order, and the count reads
\* 'Showing N of N results' with N the size of the body.
C14_LoadPublishesThenDerives ==
  last.handler = "loaded" =>
    /\ pc = "loaded"
    /\ database = last.arg
    /\ \A g \in FetchGroups :
         Range(filters[g]) =
           UNION { Range(OrEmpty(last.arg[n][FieldOf(g)])) : n \in 1..Len(last.arg) }
    /\ AllUnchecked
    /\ items = AllPositions(last.arg)
    /\ resultsGrid = [k \in 1..Len(last.arg) |-> FetchCard(last.arg[k])]
    /\ resultsCount = ShowingText(Len(last.arg), Len(last.arg))

\* C14 witness: a body of two records was loaded: two cards, 'Showing 2 of 2 results'.
C14_Witness ==
  /\ last.handler = "loaded"
  /\ Len(database) = 2
  /\ filters["areas-of-support"] = <<"A", "B">>
  /\ items = <<1, 2>>
  /\ ~gridHidden
  /\ resultsCount = [kind |-> "showing", x |-> <<50>>, y |-> <<50>>]

\* fetchDatabase has ended, normally or through its catch block
Settled == pc \in {"loaded", "failed"}

\* C15: on the fetched page the loading indicator is visible while the load is under
\* way and hidden when it has ended, whether the fetch rejected, the status was not
\* ok, the body did not parse, populateFilters threw or the load succeeded; the load
\* does end, given that the fetch settles; and once hidden the indicator stays
\* hidden through every later event.
C15_LoadingIndicatorHiddenOnceSettled ==
  /\ [](Settled <=> loadingHidden)
  /\ <>(Settled /\ loadingHidden)
  /\ [][loadingHidden => loadingHidden']_vars

\* C15 witness: populateFilters threw during the load, the indicator was hidden, and
\* a later toggle has rendered records without showing it again.
C15_Witness ==
  /\ pc = "failed"
  /\ database # <<>>
  /\ last.handler = "change"
  /\ loadingHidden

\* every record has an identifier and no two records have the same one
UniqueIds(db) ==
  /\ \A n \in 1..Len(db) : db[n].Index # Absent
  /\ \A m, n \in 1..Len(db) : db[m].Index = db[n].Index => m = n

\* C16 as claimed: over a dataset with unique identifiers, a click on a card opens
\* the detail view with the name and the content of the record the card was
\* rendered from.
C16_CardOpensItsOwnRecord ==
  [][(last'.handler = "cardClick" /\ UniqueIds(database)) =>
       \A k \in 1..Len(resultsGrid) :
         resultsGrid[k].dataId = last'.arg =>
           /\ modalTitle' = database[items[k]].Name
           /\ modalContent' = ContentHTML(database[items[k]])
           /\ ~containerHidden']_vars

\* every identifier of the dataset is a number, or every one is a string
OneIdType(db) ==
  \/ \A n \in 1..Len(db) : db[n].Index # Absent /\ IsNum(db[n].Index[1])
  \/ \A n \in 1..Len(db) : db[n].Index # Absent /\ ~IsNum(db[n].Index[1])

\* the same over the datasets whose identifiers are of one type
C16_OneIdTypeOnly ==
  [][(last'.handler = "cardClick" /\ UniqueIds(database) /\ OneIdType(database)) =>
       \A k \in 1..Len(resultsGrid) :
         resultsGrid[k].dataId = last'.arg =>
           /\ modalTitle' = database[items[k]].Name
           /\ modalContent' = ContentHTML(database[items[k]])
           /\ ~containerHidden']_vars

\* C17 as claimed: whenever the page shows 'Failed to load data.' the dataset is the
\* empty sequence, and every filter computation after a failed load displays no
\* record.
C17_LoadFailedMeansEmptyDataset ==
  /\ resultsCount = FailedText => database = <<>>
  /\ (pc = "failed" /\ last.handler \in {"change", "resetTimer"}) => items = <<>>

\* C18 as claimed: when the detail view has been opened for a record of the dataset,
\* no close button, overlay or Escape event has come since, and no timer is pending,
\* the modal container and the modal panel are visible and page scrolling is locked.
C18_OpenedModalEndsVisible ==
  (openSinceClose /\ timers = <<>>) =>
    /\ ~containerHidden
    /\ ~panelHidden
    /\ bodyOverflow = "hidden"

\* the handler that ran last has called populateResults, and the call has returned
AfterPopulateResults ==
  /\ \/ last.handler \in Rendering
     \/ variant = "inline" /\ last.handler = "init"
  /\ ~uncaught

\* C19: when a handler has called populateResults, exactly one of the results grid
\* and the no-results message is visible: the message is visible and the grid hidden
\* if and only if no record is displayed, and the grid holds the card of each
\* displayed record, in order, and no other.
C19_GridOrNoResultsMessage ==
  AfterPopulateResults =>
    /\ gridHidden # noResultsHidden
    /\ (gridHidden /\ ~noResultsHidden) <=> (items = <<>>)
    /\ Len(resultsGrid) = Len(items)
    /\ \A k \in 1..Len(items) : resultsGrid[k] = renderCard(variant, database[items[k]])

\* C19 witness: over a dataset that is not empty a toggle left no record to display:
\* the grid is hidden and empty and the message is visible.
C19_Witness ==
  /\ last.handler = "change"
  /\ database # <<>>
  /\ items = <<>>
  /\ resultsGrid = <<>>
  /\ gridHidden
  /\ ~noResultsHidden

====
